---------------------------- MODULE Spec2Model ----------------------------
(*************************************************************************)
(* Verification model of the two keyword-spotting training scripts       *)
(*   src/binary_KWS.py  binarized MLP trained with a straight-through    *)
(*                      estimator (STE)                                  *)
(*   src/first.py       floating-point MLP with weight export            *)
(*                                                                       *)
(* The scripts are one-shot batch jobs.  Each part of a script is        *)
(* modelled by its own specification over its own group of variables;    *)
(* the variables of the other groups stay at their idle values.          *)
(*   SpecLayer   BinarizeSTE / BinarizeLinearSTE under a training step   *)
(*   SpecLoop    dataset split, training loop and evaluation loop        *)
(*   SpecBuild   vocabulary, label mapping and sample collection         *)
(*   SpecItem    __getitem__: waveform length and feature normalization  *)
(*   SpecExport  weight export to text files                             *)
(*************************************************************************)
EXTENDS Integers, Sequences, FiniteSets, TLC

VARIABLES
    \* ---- SpecLayer: one output unit of a BinarizeLinearSTE layer
    weight,       \* self.weight, the stored continuous weights (one row)
    bias,         \* self.bias, the stored continuous bias of the unit
    weight_bin,   \* local weight_bin of the last forward
    bias_bin,     \* local bias_bin of the last forward
    input_bin,    \* local input_bin of the last forward
    output,       \* value returned by the last forward
    input,        \* argument of the last forward
    grad_wbin,    \* gradient autograd computed w.r.t. weight_bin
    grad_bbin,    \* gradient autograd computed w.r.t. bias_bin
    weight_grad,  \* self.weight.grad, what the optimizer reads
    bias_grad,    \* self.bias.grad, what the optimizer reads
    lpc,          \* position inside one training iteration
    \* ---- SpecLoop: split, training loop, evaluation loop
    script,       \* which script runs: "kws" (binary_KWS.py) or "first"
    n_samples,    \* len(full_dataset) / len(dataset)
    train_size,   \* number of training examples
    test_size,    \* number of held-out examples
    mode,         \* model.training: "train" or "eval"
    pc,           \* position of the script
    epoch,        \* epochs completed so far
    batch,        \* index i of the current mini-batch in the epoch
    ops,          \* operations performed so far on the current mini-batch
    grad,         \* mini-batches whose gradient is accumulated in .grad
    steps,        \* optimizer.step() calls so far = parameter updates
    bn_updates,   \* updates of the batch-norm running statistics
    step_grads,   \* TRUE while every step so far used its own batch only
    eval_batch,   \* test batches processed so far
    correct,      \* correct
    total,        \* total
    accuracy,     \* reported accuracy in hundredths of a percent, -1: none
    \* ---- SpecBuild: vocabulary, label mapping, sample collection
    bscript,      \* which script builds its dataset: "kws" or "first"
    manifest,     \* lines of commands_file (binary_KWS.py)
    disk,         \* the dataset directory: entry name -> what is there
    commands,     \* commands / self.commands
    num_classes,  \* num_classes
    command_to_index, \* label mapping: command -> index
    samples,      \* self.samples (first.py: all_files zipped with labels)
    warnings,     \* the messages printed for absent command directories
    scanned,      \* commands the constructor's loop has processed
    bpc,          \* position of the dataset construction
    \* ---- SpecItem: __getitem__ of either dataset class
    iscript,      \* which script's __getitem__ runs: "kws" or "first"
    wave_in,      \* the samples torchaudio.load returned (one channel)
    sr,           \* the native sample rate torchaudio.load returned
    waveform,     \* the waveform handed to feature extraction
    wave_rate,    \* the rate at which that waveform is sampled
    feat_shape,   \* shape of the feature tensor: <<bins, frames>>
    mel,          \* binary_KWS.py: the mel power spectrogram (sampled bins)
    features,     \* binary_KWS.py: the normalized features returned
    ipc,          \* position of __getitem__
    \* ---- SpecExport: weight export of first.py
    named_parameters, \* model.named_parameters(): <<name, tensor>> pairs
    checkpoint,   \* what torch.save wrote to mlp_speech_commands.pth
    weights,      \* the dict weights: name -> numpy array
    files,        \* the text files written: file name -> content
    xdone,        \* iterations done by the current export loop
    xpc           \* position of the export

layerVars == <<weight, bias, weight_bin, bias_bin, input_bin, output, input,
               grad_wbin, grad_bbin, weight_grad, bias_grad, lpc>>

loopVars == <<script, n_samples, train_size, test_size, mode, pc, epoch, batch,
              ops, grad, steps, bn_updates, step_grads, eval_batch, correct,
              total, accuracy>>

buildVars == <<bscript, manifest, disk, commands, num_classes,
               command_to_index, samples, warnings, scanned, bpc>>

itemVars == <<iscript, wave_in, sr, waveform, wave_rate, feat_shape, mel,
              features, ipc>>

exportVars == <<named_parameters, checkpoint, weights, files, xdone, xpc>>

vars == <<layerVars, loopVars, buildVars, itemVars, exportVars>>

-----------------------------------------------------------------------------
(* Small helpers                                                           *)

Abs(x) == IF x < 0 THEN -x ELSE x

Min(a, b) == IF a < b THEN a ELSE b

Max(a, b) == IF a > b THEN a ELSE b

RECURSIVE SumSeq(_)
SumSeq(s) == IF s = <<>> THEN 0 ELSE Head(s) + SumSeq(Tail(s))

-----------------------------------------------------------------------------
(* SpecLayer: BinarizeSTE and BinarizeLinearSTE (src/binary_KWS.py)        *)

\* Bound: magnitude of the stored parameter values (fixed-point units).
MaxAbsParam == 1

\* Bound: in_features of the modelled layer.
InFeatures == 2

ParamVals == (-MaxAbsParam)..MaxAbsParam

\* Activations reaching the layer and upstream gradients reaching its output.
ActVals == {-2, 0, 1}
GradVals == {-1, 0, 2}

Idx == 1..InFeatures

ZeroVec == [i \in Idx |-> 0]

\* Faulty variant of BinarizeSTE_forward: sign() semantics, zero stays zero.
BinarizeSTE_forward_sign(x) == IF x > 0 THEN 1 ELSE IF x = 0 THEN 0 ELSE -1

\* torch.where(input >= 0, ones_like(input), -ones_like(input)), one element
BinarizeSTE_forward(x) == IF x >= 0 THEN 1 ELSE -1

\* Faulty variant of BinarizeSTE_backward: the true derivative of the step function.
BinarizeSTE_backward_zero(grad_output) == 0

\* return grad_output
BinarizeSTE_backward(grad_output) == grad_output

\* binarize_ste applied element-wise to a tensor
binarize_ste(t) == [i \in DOMAIN t |-> BinarizeSTE_forward(t[i])]

\* F.linear(input, weight, bias) for one output unit
F_linear(x, w, b) == SumSeq([i \in Idx |-> x[i] * w[i]]) + b

InitLayer ==
    /\ weight \in [Idx -> ParamVals]      \* nn.init.xavier_uniform_
    /\ bias = 0                           \* nn.init.constant_(self.bias, 0)
    /\ weight_bin = ZeroVec
    /\ bias_bin = 0
    /\ input_bin = ZeroVec
    /\ output = 0
    /\ input = ZeroVec
    /\ grad_wbin = ZeroVec
    /\ grad_bbin = 0
    /\ weight_grad = ZeroVec
    /\ bias_grad = 0
    /\ lpc = "ready"

\* Faulty variant of LayerForwardResult: the binarized weights are computed once and
\* reused (a cached weight_bin) instead of being recomputed from self.weight.
LayerForwardCached(x) ==
    LET wb == IF weight_bin # ZeroVec THEN weight_bin ELSE binarize_ste(weight)
        bb == BinarizeSTE_forward(bias)
        xb == binarize_ste(x)
    IN  [weight_bin |-> wb, bias_bin |-> bb, input_bin |-> xb,
         output |-> F_linear(xb, wb, bb)]

\* BinarizeLinearSTE.forward: the three binarizations and the affine map
LayerForwardResult(x) ==
    LET wb == binarize_ste(weight)
        bb == BinarizeSTE_forward(bias)
        xb == binarize_ste(x)
    IN  [weight_bin |-> wb, bias_bin |-> bb, input_bin |-> xb,
         output |-> F_linear(xb, wb, bb)]

\* outputs = model(features); loss = criterion(...); optimizer.zero_grad():
\* the layer's forward on an input, then the gradients of the previous
\* iteration are dropped (nothing reads them in between)
LayerForward ==
    /\ lpc = "ready"
    /\ \E x \in [Idx -> ActVals] :
         LET r == LayerForwardResult(x) IN
         /\ input' = x
         /\ weight_bin' = r.weight_bin
         /\ bias_bin' = r.bias_bin
         /\ input_bin' = r.input_bin
         /\ output' = r.output
    /\ weight_grad' = ZeroVec
    /\ bias_grad' = 0
    /\ lpc' = "forwarded"
    /\ UNCHANGED <<weight, bias, grad_wbin, grad_bbin>>

\* loss.backward(): autograd differentiates F.linear w.r.t. weight_bin and
\* bias_bin for the upstream gradient g of the output, hands each to
\* BinarizeSTE.backward and accumulates the result into .grad
LayerBackward ==
    /\ lpc = "forwarded"
    /\ \E g \in GradVals :
         LET gw == [i \in Idx |-> g * input_bin[i]]
             gb == g
         IN
         /\ grad_wbin' = gw
         /\ grad_bbin' = gb
         /\ weight_grad' = [i \in Idx |-> weight_grad[i] + BinarizeSTE_backward(gw[i])]
         /\ bias_grad' = bias_grad + BinarizeSTE_backward(gb)
    /\ lpc' = "backwarded"
    /\ UNCHANGED <<weight, bias, weight_bin, bias_bin, input_bin, output, input>>

Clamp(x) == Max(-MaxAbsParam, Min(MaxAbsParam, x))

Sign(x) == IF x > 0 THEN 1 ELSE IF x < 0 THEN -1 ELSE 0

\* The update Adam applies to one parameter element with stored gradient g:
\* a move of one unit against the sign of g, or a move too small to show in
\* the modelled units; the value stays inside the modelled range.
AdamMoves(p, g) == {p, Clamp(p - Sign(g))}

\* optimizer.step(): only the stored weight and bias change.  The iteration
\* ends here: its input, its output and autograd's intermediate gradients
\* are released (the last binarized weights are kept so that a forward pass
\* reusing them would show).
LayerOptimizerStep ==
    /\ lpc = "backwarded"
    /\ weight' \in [Idx -> ParamVals]
    /\ \A i \in Idx : weight'[i] \in AdamMoves(weight[i], weight_grad[i])
    /\ bias' \in AdamMoves(bias, bias_grad)
    /\ input' = ZeroVec /\ input_bin' = ZeroVec /\ output' = 0
    /\ grad_wbin' = ZeroVec /\ grad_bbin' = 0
    /\ lpc' = "ready"
    /\ UNCHANGED <<weight_bin, bias_bin, weight_grad, bias_grad>>

-----------------------------------------------------------------------------
(* SpecLoop: dataset split, training loop, evaluation (both scripts)       *)

\* Program constants.
num_epochs_kws == 20
batch_size_kws == 100
num_epochs_first == 10
batch_size_first == 32

\* Bound: every dataset size from 0 to MaxSmallDataset is explored.
MaxSmallDataset == 6

\* Sizes that give a second, partial mini-batch: 33 = 32 + 1 (first.py),
\* 127 -> 101 training examples, 505 -> 101 held-out examples (binary_KWS.py).
LargeDatasets == {33, 127, 505}

DatasetSizes == (0..MaxSmallDataset) \cup LargeDatasets

Scripts == {"kws", "first"}

num_epochs == IF script = "kws" THEN num_epochs_kws ELSE num_epochs_first

batch_size == IF script = "kws" THEN batch_size_kws ELSE batch_size_first

\* len(loader): DataLoader without drop_last yields ceil(size / batch_size)
LoaderLen(size) == (size + batch_size - 1) \div batch_size

\* number of examples in mini-batch number i (from 0) of a loader over size
BatchLen(size, i) == Min(batch_size, size - i * batch_size)

InitLoop ==
    /\ script \in Scripts
    /\ n_samples \in DatasetSizes
    /\ train_size = 0
    /\ test_size = 0
    /\ mode = "train"          \* nn.Module starts in training mode
    /\ pc = "split"
    /\ epoch = 0
    /\ batch = 0
    /\ ops = <<>>
    /\ grad = {}
    /\ steps = 0
    /\ bn_updates = 0
    /\ step_grads = TRUE
    /\ eval_batch = 0
    /\ correct = 0
    /\ total = 0
    /\ accuracy = -1

\* int(0.8 * len(full_dataset)); int(0.8 * n) = floor(4n / 5) for n < 400 000
TrainFraction(n) == (4 * n) \div 5

\* binary_KWS.py: train_size, test_size and random_split.
\* first.py has no split: the loader runs over the whole dataset.
SplitDataset ==
    /\ pc = "split"
    /\ train_size' = IF script = "kws" THEN TrainFraction(n_samples) ELSE n_samples
    /\ test_size' = IF script = "kws" THEN n_samples - TrainFraction(n_samples) ELSE 0
    /\ pc' = "setup"
    /\ UNCHANGED <<script, n_samples, mode, epoch, batch, ops, grad, steps,
                   bn_updates, step_grads, eval_batch, correct, total, accuracy>>

\* The example batch that fixes input_size (binary_KWS.py: next(iter(
\* train_loader)), first.py: dataset[0]) and model.train(): with no training
\* example the script stops here with an unhandled exception.
SetupModel ==
    /\ pc = "setup"
    /\ pc' = IF train_size = 0 THEN "crashed" ELSE "forward"
    /\ mode' = "train"
    /\ UNCHANGED <<script, n_samples, train_size, test_size, epoch, batch, ops,
                   grad, steps, bn_updates, step_grads, eval_batch, correct,
                   total, accuracy>>

\* outputs = model(...): batch norm updates its running statistics in
\* training mode (binary_KWS.py only; the MLP of first.py has none)
TrainForward ==
    /\ pc = "forward"
    /\ ops' = <<"forward">>
    /\ bn_updates' = IF script = "kws" /\ mode = "train" THEN bn_updates + 1
                     ELSE bn_updates
    /\ pc' = "loss"
    /\ UNCHANGED <<script, n_samples, train_size, test_size, mode, epoch, batch,
                   grad, steps, step_grads, eval_batch, correct, total, accuracy>>

\* loss = criterion(outputs, labels)
TrainLoss ==
    /\ pc = "loss"
    /\ ops' = Append(ops, "loss")
    /\ pc' = "zero_grad"
    /\ UNCHANGED <<script, n_samples, train_size, test_size, mode, epoch, batch,
                   grad, steps, bn_updates, step_grads, eval_batch, correct,
                   total, accuracy>>

\* Faulty variant of ZeroedGrad: the gradients of earlier batches are kept.
ZeroedGradKept == grad

\* what optimizer.zero_grad() leaves in .grad
ZeroedGrad == {}

\* optimizer.zero_grad()
TrainZeroGrad ==
    /\ pc = "zero_grad"
    /\ ops' = Append(ops, "zero_grad")
    /\ grad' = ZeroedGrad
    /\ pc' = "backward"
    /\ UNCHANGED <<script, n_samples, train_size, test_size, mode, epoch, batch,
                   steps, bn_updates, step_grads, eval_batch, correct, total,
                   accuracy>>

\* loss.backward(): the batch's gradient is accumulated into .grad
TrainBackward ==
    /\ pc = "backward"
    /\ ops' = Append(ops, "backward")
    /\ grad' = grad \cup {<<epoch, batch>>}
    /\ pc' = "step"
    /\ UNCHANGED <<script, n_samples, train_size, test_size, mode, epoch, batch,
                   steps, bn_updates, step_grads, eval_batch, correct, total,
                   accuracy>>

\* for epoch in range(num_epochs): the loop ends after num_epochs epochs
AfterEpochs(e) == e >= num_epochs

\* optimizer.step(), then the two for loops advance: next mini-batch, next
\* epoch, or the code after the loops (model.eval() in binary_KWS.py, the
\* export in first.py)
TrainStep ==
    /\ pc = "step"
    /\ ops' = Append(ops, "step")
    /\ steps' = steps + 1
    /\ step_grads' = (step_grads /\ grad = {<<epoch, batch>>})
    /\ LET lastBatch == batch + 1 >= LoaderLen(train_size)
           e == IF lastBatch THEN epoch + 1 ELSE epoch
       IN  /\ epoch' = e
           /\ batch' = IF lastBatch THEN 0 ELSE batch + 1
           /\ pc' = IF lastBatch /\ AfterEpochs(e)
                    THEN (IF script = "kws" THEN "eval" ELSE "export")
                    ELSE "forward"
           /\ mode' = IF lastBatch /\ AfterEpochs(e) /\ script = "kws"
                      THEN "eval" ELSE mode
    /\ UNCHANGED <<script, n_samples, train_size, test_size, grad, bn_updates,
                   eval_batch, correct, total, accuracy>>

\* Faulty variant of CountedExamples: total counts batches, not examples.
CountedExamplesOne(labels_size) == 1

\* total += labels.size(0)
CountedExamples(labels_size) == labels_size

\* One iteration of "for features, labels in test_loader" under no_grad:
\* forward in eval mode, argmax, total and correct updated.  The number of
\* correct predictions of the batch is any value from 0 to its size.
EvalBatch ==
    /\ pc = "eval"
    /\ eval_batch < LoaderLen(test_size)
    /\ LET b == BatchLen(test_size, eval_batch) IN
       \E c \in 0..b :
         /\ total' = total + CountedExamples(b)
         /\ correct' = correct + c
    /\ bn_updates' = IF mode = "train" THEN bn_updates + 1 ELSE bn_updates
    /\ eval_batch' = eval_batch + 1
    /\ UNCHANGED <<script, n_samples, train_size, test_size, mode, pc, epoch,
                   batch, ops, grad, steps, step_grads, accuracy>>

\* '{:.2f}'.format(100 * correct / total) in hundredths of a percent,
\* rounded to nearest
Percent2(c, t) == (2 * 10000 * c + t) \div (2 * t)

\* The print after the test loop; 100 * correct / total raises
\* ZeroDivisionError when total is 0.
EvalReport ==
    /\ pc = "eval"
    /\ eval_batch >= LoaderLen(test_size)
    /\ IF total = 0
       THEN /\ pc' = "crashed"
            /\ accuracy' = accuracy
       ELSE /\ pc' = "done"
            /\ accuracy' = Percent2(correct, total)
    /\ UNCHANGED <<script, n_samples, train_size, test_size, mode, epoch, batch,
                   ops, grad, steps, bn_updates, step_grads, eval_batch, correct,
                   total>>

-----------------------------------------------------------------------------
(* SpecBuild: command vocabulary, label mapping and sample collection      *)

\* Bound: number of lines of the manifest file.
MaxManifestLines == 2

\* Entry names that may appear in the manifest or in the dataset directory,
\* in the order sorted() gives them.
NameOrder == <<"go", "no", "up">>

Names == {NameOrder[k] : k \in DOMAIN NameOrder}

\* File names as character sequences, so that endswith('.wav') is computed.
WavA == <<"a", ".", "w", "a", "v">>
WavB == <<"b", ".", "w", "a", "v">>
Txt == <<"n", ".", "t", "x", "t">>
NoDot == <<"w", "a", "v">>

\* What os.listdir may return for a command directory.
Listings == {<<>>, <<WavA>>, <<Txt, WavB, NoDot, WavA>>}

\* What the dataset directory holds under a name: nothing, a regular file,
\* or a directory with a listing.
Absent == [kind |-> "absent", files |-> <<>>]
RegularFile == [kind |-> "file", files |-> <<>>]
Directory(l) == [kind |-> "dir", files |-> l]

Entries == {Absent, RegularFile} \cup {Directory(l) : l \in Listings}

ManifestFiles == UNION {[1..k -> Names] : k \in 0..MaxManifestLines}

\* str.endswith
EndsWith(str, suffix) ==
    /\ Len(str) >= Len(suffix)
    /\ SubSeq(str, Len(str) - Len(suffix) + 1, Len(str)) = suffix

DotWav == <<".", "w", "a", "v">>

\* os.path.isdir(os.path.join(dataset_dir, command))
IsDir(command) == disk[command].kind = "dir"

\* sorted(os.listdir(root_dir)): every entry of the directory, by name
SortedListdir == SelectSeq(NameOrder, LAMBDA c : disk[c].kind # "absent")

\* {command: idx for idx, command in enumerate(commands)}: indices from 0,
\* a later occurrence of a command overwrites an earlier one
DictOfEnumerate(cmds) ==
    [c \in {cmds[k] : k \in DOMAIN cmds} |->
        CHOOSE i \in 0..(Len(cmds) - 1) :
            /\ cmds[i + 1] = c
            /\ \A j \in 0..(Len(cmds) - 1) : cmds[j + 1] = c => j <= i]

\* the (filepath, label) pairs one command directory contributes:
\* for filename in os.listdir(command_dir): if filename.endswith('.wav')
RECURSIVE WavSamples(_, _, _)
WavSamples(command, listing, label) ==
    IF listing = <<>> THEN <<>>
    ELSE (IF EndsWith(Head(listing), DotWav)
          THEN <<[path |-> <<command, Head(listing)>>, label |-> label]>>
          ELSE <<>>)
         \o WavSamples(command, Tail(listing), label)

InitBuild ==
    /\ bscript \in Scripts
    /\ disk \in [Names -> Entries]
    /\ manifest \in (IF bscript = "kws" THEN ManifestFiles ELSE {<<>>})
    /\ commands = <<>>
    /\ num_classes = 0
    /\ command_to_index = <<>>
    /\ samples = <<>>
    /\ warnings = <<>>
    /\ scanned = 0
    /\ bpc = "load"

\* binary_KWS.py: commands = f.read().splitlines(); num_classes;
\* command_to_index
LoadCommands ==
    /\ bpc = "load" /\ bscript = "kws"
    /\ commands' = manifest
    /\ num_classes' = Len(manifest)
    /\ command_to_index' = DictOfEnumerate(manifest)
    /\ bpc' = "scan"
    /\ UNCHANGED <<bscript, manifest, disk, samples, warnings, scanned>>

\* first.py: self.commands = sorted(os.listdir(root_dir)); the label of a
\* command is its index in enumerate(self.commands);
\* num_classes = len(dataset.commands)
ListCommands ==
    /\ bpc = "load" /\ bscript = "first"
    /\ commands' = SortedListdir
    /\ num_classes' = Len(SortedListdir)
    /\ command_to_index' = DictOfEnumerate(SortedListdir)
    /\ bpc' = "scan"
    /\ UNCHANGED <<bscript, manifest, disk, samples, warnings, scanned>>

\* Faulty variant of AbsentDirectory: an absent directory aborts the construction.
AbsentDirectoryRaises(command) ==
    [bpc |-> "crashed", warnings |-> warnings, samples |-> samples]

\* binary_KWS.py, else branch: print the warning, go on with the next command
AbsentDirectory(command) ==
    [bpc |-> "scan", warnings |-> Append(warnings, command), samples |-> samples]

\* binary_KWS.py: one iteration of "for command in self.commands"
ScanCommandKws ==
    /\ bpc = "scan" /\ bscript = "kws"
    /\ scanned < Len(commands)
    /\ LET command == commands[scanned + 1]
           r == IF IsDir(command)
                THEN [bpc |-> "scan", warnings |-> warnings,
                      samples |-> samples \o
                          WavSamples(command, disk[command].files,
                                     command_to_index[command])]
                ELSE AbsentDirectory(command)
       IN  /\ samples' = r.samples
           /\ warnings' = r.warnings
           /\ bpc' = r.bpc
    /\ scanned' = scanned + 1
    /\ UNCHANGED <<bscript, manifest, disk, commands, num_classes,
                   command_to_index>>

\* first.py: one iteration of "for idx, command in enumerate(self.commands)";
\* an entry that is no directory is skipped silently
ScanCommandFirst ==
    /\ bpc = "scan" /\ bscript = "first"
    /\ scanned < Len(commands)
    /\ LET command == commands[scanned + 1] IN
       samples' = IF IsDir(command)
                  THEN samples \o WavSamples(command, disk[command].files, scanned)
                  ELSE samples
    /\ scanned' = scanned + 1
    /\ UNCHANGED <<bscript, manifest, disk, commands, num_classes,
                   command_to_index, warnings, bpc>>

\* the constructor returns
FinishBuild ==
    /\ bpc = "scan"
    /\ scanned = Len(commands)
    /\ bpc' = "built"
    /\ UNCHANGED <<bscript, manifest, disk, commands, num_classes,
                   command_to_index, samples, warnings, scanned>>

-----------------------------------------------------------------------------
(* SpecItem: __getitem__, waveform length and feature normalization        *)

\* Program constant: sample_rate of binary_KWS.py, the rate the MFCC of
\* first.py is configured for.
sample_rate == 16000

\* Bound: the loaded clips have about 0, 1, ..., MaxHalfSeconds half seconds
\* (of 8000 samples), one sample less or one more.
MaxHalfSeconds == 4

\* Bound: number of mel bins of the spectrogram that are followed.
FeatureElems == 3

ClipLengths ==
    {l \in {8000 * k + d : k \in 0..MaxHalfSeconds, d \in {-1, 0, 1}} : l >= 0}

\* Native sample rates of the audio files.
NativeRates == {8000, 16000, 44100}

\* Power values a mel bin may have (0: no energy in the bin).
PowerVals == {0, 1, 2, 8}

\* A clip is silent (all samples zero) or not (sample i has amplitude i).
SilentClip(len) == [i \in 1..len |-> 0]
SoundClip(len) == [i \in 1..len |-> i]

IsSilent(w) == \A i \in DOMAIN w : w[i] = 0

\* torchaudio.transforms.Resample(orig_freq, new_freq): the output has
\* ceil(new_freq * length / orig_freq) samples; a silent input stays silent,
\* the other samples are interpolated (marked by negative amplitudes).
Resample(w, orig_freq, new_freq) ==
    LET len == (new_freq * Len(w) + orig_freq - 1) \div orig_freq IN
    IF IsSilent(w) THEN SilentClip(len) ELSE [i \in 1..len |-> -i]

\* torch.nn.functional.pad(waveform, (0, padding)): zeros on the right
PadRight(w, padding) == w \o [i \in 1..padding |-> 0]

\* binary_KWS.py lines 79-89: resample if needed, then pad or truncate to
\* sample_rate samples
FixedLengthKws(w, rate) ==
    LET r == IF rate # sample_rate THEN Resample(w, rate, sample_rate) ELSE w IN
    IF Len(r) < sample_rate
    THEN PadRight(r, sample_rate - Len(r))
    ELSE SubSeq(r, 1, sample_rate)

\* first.py _preprocess_audio: num_samples = int(fixed_length * sample_rate)
\* with the native rate of the file; no resampling
PreprocessAudio(w, rate) ==
    LET num_samples == 1 * rate IN
    IF Len(w) > num_samples
    THEN SubSeq(w, 1, num_samples)
    ELSE PadRight(w, num_samples - Len(w))

\* ---- floating-point values: finite (in fixed-point units), -inf, +inf, NaN
Fin(v) == [k |-> "fin", v |-> v]
NegInf == [k |-> "ninf", v |-> 0]
PosInf == [k |-> "pinf", v |-> 0]
NaN == [k |-> "nan", v |-> 0]

IsFinite(x) == x.k = "fin"

\* Tensor.log2() of a power value: log2(0) = -inf
Log2(p) ==
    IF p = 0 THEN NegInf
    ELSE Fin(CHOOSE e \in 0..30 : 2 ^ e <= p /\ p < 2 ^ (e + 1))

\* largest r with r * r <= q
RECURSIVE ISqrtBetween(_, _, _)
ISqrtBetween(q, lo, hi) ==
    IF lo >= hi THEN lo
    ELSE LET mid == (lo + hi + 1) \div 2 IN
         IF mid * mid <= q THEN ISqrtBetween(q, mid, hi)
         ELSE ISqrtBetween(q, lo, mid - 1)

ISqrt(q) == ISqrtBetween(q, 0, 46340)

\* 1e-5 in units of 1e-5
Eps == 1

\* (features - features.mean()) / (features.std() + 1e-5) on a tensor of
\* floating-point values.  With a non-finite element the mean is not finite,
\* every difference to it and the standard deviation are NaN.  Otherwise
\* differences and the (unbiased) standard deviation are computed in units of
\* 1e-5 and the quotient in units of 1e-3.
Standardize(t) ==
    LET n == Len(t)
        allFinite == \A i \in DOMAIN t : IsFinite(t[i])
        sum == SumSeq([i \in DOMAIN t |-> t[i].v])
        dev(i) == n * t[i].v - sum                   \* n * (x - mean)
        sq == SumSeq([i \in DOMAIN t |-> dev(i) * dev(i)])
        std == 100 * ISqrt((sq * 1000000) \div (n * n * (n - 1)))
    IN  IF ~allFinite \/ n < 2
        THEN [i \in DOMAIN t |-> NaN]
        ELSE [i \in DOMAIN t |->
                 Fin((((dev(i) * 100000) \div n) * 1000) \div (std + Eps))]

\* What MelSpectrogram may return for a waveform: no energy in any bin for a
\* silent waveform; otherwise any power values with energy in some bin (a
\* bin of a frame that lies in the zero padding has none).
MelSpectrograms(w) ==
    IF IsSilent(w) THEN {[i \in 1..FeatureElems |-> 0]}
    ELSE {m \in [1..FeatureElems -> PowerVals] : \E i \in 1..FeatureElems : m[i] # 0}

\* number of frames of a centred short-time transform with the given hop
Frames(len, hop) == len \div hop + 1

InitItem ==
    /\ iscript \in Scripts
    /\ sr \in NativeRates
    /\ \E len \in ClipLengths : wave_in \in {SilentClip(len), SoundClip(len)}
    /\ waveform = <<>>
    /\ wave_rate = 0
    /\ feat_shape = <<0, 0>>
    /\ mel = <<>>
    /\ features = <<>>
    /\ ipc = "loaded"

\* binary_KWS.py SpeechCommandsDataset.__getitem__ (transform is set)
GetItemKws ==
    /\ ipc = "loaded" /\ iscript = "kws"
    /\ LET w == FixedLengthKws(wave_in, sr) IN
       /\ waveform' = w
       /\ wave_rate' = sample_rate
       /\ feat_shape' = <<64, Frames(Len(w), 200)>>
       /\ \E m \in MelSpectrograms(w) :
            /\ mel' = m
            /\ features' = Standardize([i \in DOMAIN m |-> Log2(m[i])])
    /\ ipc' = "done"
    /\ UNCHANGED <<iscript, wave_in, sr>>

\* first.py SpeechCommandsDataset.__getitem__: the MFCC (40 coefficients,
\* hop 512) of the preprocessed waveform; only its shape is followed
GetItemFirst ==
    /\ ipc = "loaded" /\ iscript = "first"
    /\ LET w == PreprocessAudio(wave_in, sr) IN
       /\ waveform' = w
       /\ wave_rate' = sr
       /\ feat_shape' = <<40, Frames(Len(w), 512)>>
    /\ mel' = <<>>
    /\ features' = <<>>
    /\ ipc' = "done"
    /\ UNCHANGED <<iscript, wave_in, sr>>

-----------------------------------------------------------------------------
(* SpecExport: weight export of first.py                                   *)

\* Bound: largest number of rows and of columns of the exported weight.
MaxDim == 2

\* Values a trained parameter element may have.
ElemVals == {-12, 0, 7}

\* Names are sequences of pieces so that str.replace('.', '_') is computed.
WeightName == <<"model", ".", "0", ".", "weight">>
BiasName == <<"model", ".", "0", ".", "bias">>

\* A tensor: its shape and its elements (rows of columns for two
\* dimensions, a plain sequence for one).
Matrix(h, d) == [1..h -> [1..d -> ElemVals]]
Vector(h) == [1..h -> ElemVals]

\* name.replace('.', '_')
ReplaceDots(name) == [i \in DOMAIN name |-> IF name[i] = "." THEN "_" ELSE name[i]]

\* f"{name.replace('.', '_')}.txt"
FileName(name) == Append(ReplaceDots(name), ".txt")

\* ndarray.flatten() (C order): the rows one after the other
RECURSIVE FlattenRows(_)
FlattenRows(rows) ==
    IF rows = <<>> THEN <<>> ELSE Head(rows) \o FlattenRows(Tail(rows))

Flatten(t) == IF t.ndim = 2 THEN FlattenRows(t.data) ELSE t.data

\* ---- text of a file: number tokens, commas and newlines
\* '%.18e' % v: sign, mantissa with one digit before the point (kept to
\* three decimals, in thousandths) and decimal exponent
FormatE(v) ==
    LET a == Abs(v)
        e == IF a = 0 THEN 0 ELSE CHOOSE x \in 0..9 : 10 ^ x <= a /\ a < 10 ^ (x + 1)
    IN  [t |-> "num", neg |-> v < 0, mant |-> (a * 1000) \div (10 ^ e), exp |-> e]

Comma == [t |-> ",", neg |-> FALSE, mant |-> 0, exp |-> 0]
Newline == [t |-> "\n", neg |-> FALSE, mant |-> 0, exp |-> 0]

\* The separator token a delimiter argument stands for.
Delimiter(d) == IF d = "," THEN Comma ELSE Newline

\* one row of savetxt: the formatted columns joined by the delimiter
RECURSIVE JoinRow(_, _)
JoinRow(row, delim) ==
    IF row = <<>> THEN <<>>
    ELSE IF Len(row) = 1 THEN <<FormatE(Head(row))>>
    ELSE <<FormatE(Head(row)), delim>> \o JoinRow(Tail(row), delim)

RECURSIVE WriteRows(_, _)
WriteRows(rows, delim) ==
    IF rows = <<>> THEN <<>>
    ELSE JoinRow(Head(rows), delim) \o <<Newline>> \o WriteRows(Tail(rows), delim)

\* np.savetxt(fname, X, delimiter) for a one-dimensional X: numpy turns X
\* into a column (np.atleast_2d(X).T), so every element is a row of one
\* column; rows end with a newline and the delimiter separates columns only
SaveTxt1D(x, delimiter) ==
    WriteRows([i \in DOMAIN x |-> <<x[i]>>], Delimiter(delimiter))

InitExport ==
    /\ \E h \in 1..MaxDim, d \in 1..MaxDim :
         \E w \in Matrix(h, d), b \in Vector(h) :
            named_parameters =
                << <<WeightName, [ndim |-> 2, shape |-> <<h, d>>, data |-> w]>>,
                   <<BiasName, [ndim |-> 1, shape |-> <<h>>, data |-> b]>> >>
    /\ checkpoint = <<>>
    /\ weights = <<>>
    /\ files = <<>>
    /\ xdone = 0
    /\ xpc = "trained"

\* torch.save(model.state_dict(), 'mlp_speech_commands.pth')
SaveCheckpoint ==
    /\ xpc = "trained"
    /\ checkpoint' = named_parameters
    /\ xpc' = "extract"
    /\ UNCHANGED <<named_parameters, weights, files, xdone>>

\* weights[name] = param.detach().numpy(): one iteration, then the next loop
ExtractWeight ==
    /\ xpc = "extract"
    /\ LET np == named_parameters[xdone + 1] IN
       weights' = Append(weights, np)
    /\ IF xdone + 1 = Len(named_parameters)
       THEN xdone' = 0 /\ xpc' = "save"
       ELSE xdone' = xdone + 1 /\ xpc' = xpc
    /\ UNCHANGED <<named_parameters, checkpoint, files>>

\* np.savetxt(filename, weight.flatten(), delimiter=','): one iteration of
\* "for name, weight in weights.items()" (a dict keeps insertion order)
SaveWeight ==
    /\ xpc = "save"
    /\ LET name == weights[xdone + 1][1]
           array == weights[xdone + 1][2]
           filename == FileName(name)
           text == SaveTxt1D(Flatten(array), ",")
       IN  files' = [f \in DOMAIN files \cup {filename} |->
                        IF f = filename THEN text ELSE files[f]]
    /\ IF xdone + 1 = Len(weights)
       THEN xdone' = xdone + 1 /\ xpc' = "exported"
       ELSE xdone' = xdone + 1 /\ xpc' = xpc
    /\ UNCHANGED <<named_parameters, checkpoint, weights>>

-----------------------------------------------------------------------------
(* Specifications                                                          *)

IdleLayer ==
    /\ weight = ZeroVec /\ bias = 0 /\ weight_bin = ZeroVec /\ bias_bin = 0
    /\ input_bin = ZeroVec /\ output = 0 /\ input = ZeroVec
    /\ grad_wbin = ZeroVec /\ grad_bbin = 0 /\ weight_grad = ZeroVec
    /\ bias_grad = 0 /\ lpc = "idle"

IdleLoop ==
    /\ script = "kws" /\ n_samples = 0 /\ train_size = 0 /\ test_size = 0
    /\ mode = "train" /\ pc = "idle" /\ epoch = 0 /\ batch = 0 /\ ops = <<>>
    /\ grad = {} /\ steps = 0 /\ bn_updates = 0 /\ step_grads = TRUE
    /\ eval_batch = 0 /\ correct = 0 /\ total = 0 /\ accuracy = -1

IdleBuild ==
    /\ bscript = "kws" /\ manifest = <<>> /\ disk = <<>> /\ commands = <<>>
    /\ num_classes = 0 /\ command_to_index = <<>> /\ samples = <<>>
    /\ warnings = <<>> /\ scanned = 0 /\ bpc = "idle"

IdleItem ==
    /\ iscript = "kws" /\ wave_in = <<>> /\ sr = 0 /\ waveform = <<>>
    /\ wave_rate = 0 /\ feat_shape = <<0, 0>> /\ mel = <<>> /\ features = <<>>
    /\ ipc = "idle"

IdleExport ==
    /\ named_parameters = <<>> /\ checkpoint = <<>> /\ weights = <<>>
    /\ files = <<>> /\ xdone = 0 /\ xpc = "idle"

NextLayer ==
    \/ LayerForward /\ UNCHANGED <<loopVars, buildVars, itemVars, exportVars>>
    \/ LayerBackward /\ UNCHANGED <<loopVars, buildVars, itemVars, exportVars>>
    \/ LayerOptimizerStep /\ UNCHANGED <<loopVars, buildVars, itemVars, exportVars>>

InitLayerSpec == InitLayer /\ IdleLoop /\ IdleBuild /\ IdleItem /\ IdleExport

SpecLayer == InitLayerSpec /\ [][NextLayer]_vars

NextLoop ==
    \/ SplitDataset /\ UNCHANGED <<layerVars, buildVars, itemVars, exportVars>>
    \/ SetupModel /\ UNCHANGED <<layerVars, buildVars, itemVars, exportVars>>
    \/ TrainForward /\ UNCHANGED <<layerVars, buildVars, itemVars, exportVars>>
    \/ TrainLoss /\ UNCHANGED <<layerVars, buildVars, itemVars, exportVars>>
    \/ TrainZeroGrad /\ UNCHANGED <<layerVars, buildVars, itemVars, exportVars>>
    \/ TrainBackward /\ UNCHANGED <<layerVars, buildVars, itemVars, exportVars>>
    \/ TrainStep /\ UNCHANGED <<layerVars, buildVars, itemVars, exportVars>>
    \/ EvalBatch /\ UNCHANGED <<layerVars, buildVars, itemVars, exportVars>>
    \/ EvalReport /\ UNCHANGED <<layerVars, buildVars, itemVars, exportVars>>

InitLoopSpec == InitLoop /\ IdleLayer /\ IdleBuild /\ IdleItem /\ IdleExport

\* The script is one sequential process: whenever a step is possible it is
\* eventually taken.
SpecLoop == InitLoopSpec /\ [][NextLoop]_vars /\ WF_vars(NextLoop)

NextBuild ==
    \/ LoadCommands /\ UNCHANGED <<layerVars, loopVars, itemVars, exportVars>>
    \/ ListCommands /\ UNCHANGED <<layerVars, loopVars, itemVars, exportVars>>
    \/ ScanCommandKws /\ UNCHANGED <<layerVars, loopVars, itemVars, exportVars>>
    \/ ScanCommandFirst /\ UNCHANGED <<layerVars, loopVars, itemVars, exportVars>>
    \/ FinishBuild /\ UNCHANGED <<layerVars, loopVars, itemVars, exportVars>>

InitBuildSpec == InitBuild /\ IdleLayer /\ IdleLoop /\ IdleItem /\ IdleExport

SpecBuild == InitBuildSpec /\ [][NextBuild]_vars

NextItem ==
    \/ GetItemKws /\ UNCHANGED <<layerVars, loopVars, buildVars, exportVars>>
    \/ GetItemFirst /\ UNCHANGED <<layerVars, loopVars, buildVars, exportVars>>

InitItemSpec == InitItem /\ IdleLayer /\ IdleLoop /\ IdleBuild /\ IdleExport

SpecItem == InitItemSpec /\ [][NextItem]_vars

NextExport ==
    \/ SaveCheckpoint /\ UNCHANGED <<layerVars, loopVars, buildVars, itemVars>>
    \/ ExtractWeight /\ UNCHANGED <<layerVars, loopVars, buildVars, itemVars>>
    \/ SaveWeight /\ UNCHANGED <<layerVars, loopVars, buildVars, itemVars>>

InitExportSpec == InitExport /\ IdleLayer /\ IdleLoop /\ IdleBuild /\ IdleItem

SpecExport == InitExportSpec /\ [][NextExport]_vars

-----------------------------------------------------------------------------
(* Properties of SpecLayer                                                 *)

AfterForward == lpc \in {"forwarded", "backwarded"}

\* C1: BinarizeSTE.forward maps every element of its input (the weights, the
\* bias and the activations here) to +1 when the element is >= 0, zero
\* included, and to -1 otherwise; no output element has any other value.
C1_ForwardIsSign ==
    AfterForward =>
        /\ \A i \in Idx :
             /\ weight_bin[i] \in {1, -1}
             /\ (weight[i] >= 0) <=> (weight_bin[i] = 1)
             /\ input_bin[i] \in {1, -1}
             /\ (input[i] >= 0) <=> (input_bin[i] = 1)
        /\ bias_bin \in {1, -1}
        /\ (bias >= 0) <=> (bias_bin = 1)

\* A forward pass has binarized a zero activation to +1 and a negative
\* weight to -1.
C1_Witness ==
    /\ lpc = "forwarded"
    /\ \E i \in Idx : input[i] = 0 /\ input_bin[i] = 1
    /\ \E j \in Idx : weight[j] < 0 /\ weight_bin[j] = -1

\* C2: BinarizeSTE.backward is the identity: after loss.backward() the
\* gradient stored for the continuous weight and bias equals the gradient
\* computed with respect to their binarized values, whatever the upstream
\* gradient and the forward input were.
C2_BackwardIsIdentity ==
    lpc = "backwarded" =>
        /\ weight_grad = grad_wbin
        /\ bias_grad = grad_bbin

\* A backward pass with upstream gradient 2 through a negative activation.
C2_Witness ==
    /\ lpc = "backwarded"
    /\ grad_bbin = 2 /\ bias_grad = 2
    /\ \E i \in Idx : input[i] = -2 /\ grad_wbin[i] = -2 /\ weight_grad[i] = -2

\* C8: a forward pass leaves the stored weight and bias unchanged and
\* computes its output from the binarization of their current values and of
\* the current input; the stored parameters change only in optimizer.step().
C8_FreshBinarization ==
    [][ /\ (lpc' = "forwarded") =>
              /\ weight' = weight
              /\ bias' = bias
              /\ weight_bin' = [i \in Idx |-> IF weight[i] >= 0 THEN 1 ELSE -1]
              /\ bias_bin' = (IF bias >= 0 THEN 1 ELSE -1)
              /\ input_bin' = [i \in Idx |-> IF input'[i] >= 0 THEN 1 ELSE -1]
              /\ output' = SumSeq([i \in Idx |-> input_bin'[i] * weight_bin'[i]])
                           + bias_bin'
        /\ (weight' # weight \/ bias' # bias) =>
              (lpc = "backwarded" /\ lpc' = "ready")
      ]_vars

\* A forward pass that follows an optimizer step (the bias has left its
\* initial value 0) and used the binarization of the updated, now negative,
\* bias and of a negative weight.
C8_Witness ==
    /\ lpc = "forwarded"
    /\ bias < 0 /\ bias_bin = -1
    /\ \E i \in Idx : weight[i] < 0 /\ weight_bin[i] = -1

-----------------------------------------------------------------------------
(* Properties of SpecLoop                                                  *)

TrainingOver == pc \in {"eval", "export", "done"}

C7_Inv ==
    /\ epoch <= num_epochs
    /\ (pc = "step") =>
          /\ ops = <<"forward", "loss", "zero_grad", "backward">>
          /\ grad = {<<epoch, batch>>}
    /\ step_grads
    /\ TrainingOver =>
          /\ epoch = num_epochs
          /\ steps = num_epochs * LoaderLen(train_size)

C9_Evaluation ==
    (script = "kws" /\ pc \in {"eval", "done"}) =>
        /\ 0 <= correct /\ correct <= total
        /\ total = Min(eval_batch * batch_size, test_size)
        /\ steps = num_epochs * LoaderLen(train_size)
        /\ bn_updates = steps
        /\ (pc = "done") =>
              /\ total = test_size
              /\ total = n_samples - train_size
              /\ total > 0
              /\ accuracy >= 0 /\ accuracy <= 10000

\* Two test batches (100 + 1 examples) evaluated with some, not all,
\* predictions correct, and the accuracy reported.
C9_Witness ==
    /\ pc = "done" /\ eval_batch = 2 /\ total = 101
    /\ correct > 0 /\ correct < total
    /\ accuracy > 0 /\ accuracy < 10000

-----------------------------------------------------------------------------
(* Properties of SpecBuild                                                 *)

Range(f) == {f[x] : x \in DOMAIN f}

\* The commands of the list whose directory exists, in order.
PresentCommands == SelectSeq(commands, IsDir)

\* The samples a scan of the given commands collects when every one of them
\* has its directory.
RECURSIVE SamplesOfPresent(_)
SamplesOfPresent(cmds) ==
    IF cmds = <<>> THEN <<>>
    ELSE WavSamples(Head(cmds), disk[Head(cmds)].files,
                    command_to_index[Head(cmds)])
         \o SamplesOfPresent(Tail(cmds))

\* C4 (as claimed): once the mapping is built it is a bijection between the
\* command vocabulary and 0..num_classes-1, and every collected sample's
\* label lies in that range.
C4_LabelBijection ==
    bpc \in {"scan", "built"} =>
        /\ Range(command_to_index) = 0..(num_classes - 1)
        /\ Cardinality(DOMAIN command_to_index) = num_classes
        /\ DOMAIN command_to_index = {commands[k] : k \in DOMAIN commands}
        /\ \A k \in DOMAIN samples : samples[k].label \in 0..(num_classes - 1)

\* C6: in binary_KWS.py an absent command directory never aborts the
\* construction; it prints one warning per absent entry, adds no sample of
\* that command, and the samples collected are exactly those collected for
\* the list without the absent commands.
C6_AbsentDirectorySkipped ==
    (bscript = "kws") =>
        /\ bpc # "crashed"
        /\ (bpc = "built") =>
              /\ samples = SamplesOfPresent(PresentCommands)
              /\ Len(warnings) = Len(commands) - Len(PresentCommands)
              /\ \A k \in DOMAIN samples : IsDir(samples[k].path[1])
              /\ \A k \in DOMAIN warnings : ~IsDir(warnings[k])

\* A list whose first command has no directory and whose second command has
\* one: the warning is printed and the second command's files are collected.
C6_Witness ==
    /\ bscript = "kws" /\ bpc = "built"
    /\ Len(commands) = 2
    /\ ~IsDir(commands[1]) /\ IsDir(commands[2])
    /\ Len(warnings) = 1
    /\ Len(samples) = 2

-----------------------------------------------------------------------------
(* Properties of SpecItem                                                  *)

\* C3 (as claimed): in both scripts the waveform handed to feature
\* extraction is at 16 kHz and has exactly 16000 samples; at the canonical
\* native rate it is the first 16000 loaded samples, or the loaded samples
\* followed by zeros.
C3_FixedLength ==
    (ipc = "done") =>
        /\ wave_rate = 16000
        /\ Len(waveform) = 16000
        /\ (sr = 16000 /\ Len(wave_in) >= 16000) =>
              waveform = SubSeq(wave_in, 1, 16000)
        /\ (sr = 16000 /\ Len(wave_in) < 16000) =>
              /\ SubSeq(waveform, 1, Len(wave_in)) = wave_in
              /\ \A i \in (Len(wave_in) + 1)..16000 : waveform[i] = 0

IsConstant(t) == \A i, j \in DOMAIN t : t[i] = t[j]

\* C10 (as claimed): in binary_KWS.py, for a silent waveform or any clip
\* whose spectrogram is constant, every returned feature value is finite and
\* near zero (at most 0.001 in magnitude).
C10_ConstantInputNearZero ==
    (ipc = "done" /\ iscript = "kws" /\ (IsSilent(waveform) \/ IsConstant(mel))) =>
        \A i \in DOMAIN features :
            /\ IsFinite(features[i])
            /\ Abs(features[i].v) <= 1

-----------------------------------------------------------------------------
(* Properties of SpecExport                                                *)

\* The value a number token denotes.
ParseE(tok) ==
    LET a == (tok.mant * (10 ^ tok.exp)) \div 1000 IN
    IF tok.neg THEN -a ELSE a

\* The text without the newline that ends it, if any.
StripFinalNewline(text) ==
    IF text # <<>> /\ text[Len(text)] = Newline
    THEN SubSeq(text, 1, Len(text) - 1) ELSE text

\* The fields of a text split at every comma.
RECURSIVE SplitAtCommas(_, _)
SplitAtCommas(text, field) ==
    IF text = <<>> THEN <<field>>
    ELSE IF Head(text) = Comma
         THEN <<field>> \o SplitAtCommas(Tail(text), <<>>)
         ELSE SplitAtCommas(Tail(text), Append(field, Head(text)))

CommaFields(text) == SplitAtCommas(StripFinalNewline(text), <<>>)

\* C5 (as claimed): the file written for a parameter of shape (H, D), named
\* after the parameter with '.' replaced by '_', holds exactly H*D
\* comma-separated numbers, the k-th (from 0) being the element at row
\* k div D, column k mod D.
C5_CommaSeparatedRowMajor ==
    (xpc = "exported") =>
        \A p \in DOMAIN named_parameters :
            LET name == named_parameters[p][1]
                t == named_parameters[p][2]
                fname == [i \in 1..(Len(name) + 1) |->
                             IF i = Len(name) + 1 THEN ".txt"
                             ELSE IF name[i] = "." THEN "_" ELSE name[i]]
            IN  (t.ndim = 2) =>
                  /\ fname \in DOMAIN files
                  /\ LET fields == CommaFields(files[fname])
                         h == t.shape[1]
                         d == t.shape[2]
                     IN  /\ Len(fields) = h * d
                         /\ \A k \in 0..(h * d - 1) :
                              /\ Len(fields[k + 1]) = 1
                              /\ fields[k + 1][1].t = "num"
                              /\ ParseE(fields[k + 1][1])
                                   = t.data[(k \div d) + 1][(k % d) + 1]

=============================================================================
